---- MODULE Spec2Model ----
(***************************************************************************)
(* Model of the buffered CSV event sink of input_tracker.cpp: the          *)
(* CSVLogger class (queue, mutex, running flag, background flush thread),  *)
(* the global TrackerConfig with startLogging/stopLogging, the hook        *)
(* callbacks and the cursor polling thread.                                *)
(*                                                                         *)
(* Every thread has a program counter.  A step is one access to shared     *)
(* state (an atomic load or store, a mutex acquisition, a critical section *)
(* up to its unlock, one file operation) together with the thread-local    *)
(* computation that follows it.                                            *)
(***************************************************************************)
EXTENDS Naturals, Integers, Sequences, FiniteSets, TLC

\* ------------------------------------------------------------------ bounds
\* Number of events the producers enqueue in one behaviour.
MaxEvents == 2
\* Number of lifecycle calls (start, stop, startLogging, stopLogging) made.
MaxCalls == 3

\* ----------------------------------------------------------------- threads
\* Threads that call the lifecycle operations; c1 is the CLI main thread.
Callers == {"c1", "c2"}
\* Background flush threads that can exist (std::thread objects).
FlushThreads == {"f1", "f2"}
\* Threads that call CSVLogger::logEvent directly.
Producers == {"p1", "p2"}
\* The thread on which the low-level hook callbacks run.
HookThread == "hook"
\* Detached cursor polling threads that can exist.
Pollers == {"q1", "q2"}

Threads == Callers \cup FlushThreads \cup Producers \cup {HookThread} \cup Pollers
\* Threads that execute CSVLogger::flushToDisk.
Flushers == Callers \cup FlushThreads

None == "none"

VARIABLES
    m_running,      \* CSVLogger::m_running
    m_eventQueue,   \* CSVLogger::m_eventQueue
    m_queueMutex,   \* CSVLogger::m_queueMutex: the thread holding it, or None
    m_flushThread,  \* CSVLogger::m_flushThread: the thread it owns, or None
    file,           \* the lines of the file m_filename
    isRunning,      \* TrackerConfig::isRunning
    hooked,         \* TrackerConfig::mouseHook / keyboardHook are installed
    pc,             \* position of every thread
    ret,            \* caller: where CSVLogger::start / stop returns to
    ofsOpen,        \* caller: the ofstream of start() is open
    localBuffer,    \* flushToDisk: the local vector of the executing thread
    sleepLeft,      \* flush thread: its sleep_for interval has not elapsed yet
    terminated,     \* std::terminate was called
    nextId,         \* history: identity given to the next enqueued event
    persisted,      \* history: identities ever appended to the file
    dropped,        \* history: identities drained and discarded unwritten
    stopMark,       \* history: nextId when the caller's stop() was invoked
    lastOp,         \* history: how the caller's last lifecycle call returned;
                    \* None while a call is in progress
    calls           \* history: lifecycle calls made

vars == <<m_running, m_eventQueue, m_queueMutex, m_flushThread, file, isRunning,
          hooked, pc, ret, ofsOpen, localBuffer, sleepLeft, terminated, nextId,
          persisted, dropped, stopMark, lastOp, calls>>

loggerVars == <<m_running, m_flushThread>>
queueVars == <<m_eventQueue, m_queueMutex, nextId>>
appVars == <<isRunning, hooked>>
histVars == <<persisted, dropped, stopMark, lastOp, calls>>

\* ------------------------------------------------------------------- data
\* An InputEvent, reduced to the thread that built it and the position at
\* which it entered the queue.
InputEvent(t, n) == [src |-> t, id |-> n]

\* The header line written by start().
HeaderLine == [line |-> "header", src |-> None, id |-> 0]

\* The CSV line flushToDisk writes for an event.
CsvLine(evt) == [line |-> "record", src |-> evt.src, id |-> evt.id]

Ids(s) == {s[i].id : i \in DOMAIN s}

\* The records of the file: its lines other than header lines.
Records(f) == SelectSeq(f, LAMBDA l : l.line = "record")

Init ==
    /\ m_running = FALSE
    /\ m_eventQueue = <<>>
    /\ m_queueMutex = None
    /\ m_flushThread = None
    /\ file = <<>>
    /\ isRunning = FALSE
    /\ hooked = FALSE
    /\ pc = [t \in Threads |-> IF t \in FlushThreads \cup Pollers THEN None ELSE "idle"]
    /\ ret = [t \in Callers |-> "idle"]
    /\ ofsOpen = [t \in Callers |-> FALSE]
    /\ localBuffer = [t \in Flushers |-> <<>>]
    /\ sleepLeft = [t \in FlushThreads |-> FALSE]
    /\ terminated = FALSE
    /\ nextId = 1
    /\ persisted = {}
    /\ dropped = {}
    /\ stopMark = [t \in Callers |-> 0]
    /\ lastOp = [t \in Callers |-> None]
    /\ calls = 0


\* ------------------------------------------------------------ CSVLogger
\* A return of CSVLogger::start or CSVLogger::stop to its caller.
Return(t, op) ==
    /\ pc' = [pc EXCEPT ![t] = ret[t]]
    /\ lastOp' = [lastOp EXCEPT ![t] = op]

\* A thread calls csvLogger.start() directly.
CallStart(t) ==
    /\ pc[t] = "idle"
    /\ calls < MaxCalls
    /\ pc' = [pc EXCEPT ![t] = "st_check"]
    /\ ret' = [ret EXCEPT ![t] = "idle"]
    /\ calls' = calls + 1
    /\ lastOp' = [lastOp EXCEPT ![t] = None]
    /\ UNCHANGED <<loggerVars, queueVars, appVars, file, ofsOpen, localBuffer,
                   sleepLeft, terminated, persisted, dropped, stopMark>>

\* StartCheck without the test of m_running: start() always goes on.
StartCheck_IgnoresRunning(t) ==
    /\ pc[t] = "st_check"
    /\ pc' = [pc EXCEPT ![t] = "st_store"]
    /\ UNCHANGED <<loggerVars, queueVars, appVars, file, ret, ofsOpen, localBuffer,
                   sleepLeft, terminated, histVars>>

\* start(): if (m_running.load()) return;
StartCheck(t) ==
    /\ pc[t] = "st_check"
    /\ IF m_running
         THEN Return(t, "start_noop")
         ELSE /\ pc' = [pc EXCEPT ![t] = "st_store"]
              /\ UNCHANGED lastOp
    /\ UNCHANGED <<loggerVars, queueVars, appVars, file, ret, ofsOpen, localBuffer,
                   sleepLeft, terminated, persisted, dropped, stopMark, calls>>

\* start(): m_running.store(true);
StartStore(t) ==
    /\ pc[t] = "st_store"
    /\ m_running' = TRUE
    /\ pc' = [pc EXCEPT ![t] = "st_open"]
    /\ UNCHANGED <<m_flushThread, queueVars, appVars, file, ret, ofsOpen,
                   localBuffer, sleepLeft, terminated, histVars>>

\* start(): std::ofstream ofs(m_filename, std::ios::trunc); the open either
\* truncates the file or fails and leaves the stream closed.
StartOpen(t) ==
    /\ pc[t] = "st_open"
    /\ \/ /\ file' = <<>>
          /\ ofsOpen' = [ofsOpen EXCEPT ![t] = TRUE]
          /\ UNCHANGED lastOp
       \/ /\ lastOp' = [lastOp EXCEPT ![t] = "open_failed"]
          /\ UNCHANGED <<file, ofsOpen>>
    /\ pc' = [pc EXCEPT ![t] = "st_header"]
    /\ UNCHANGED <<loggerVars, queueVars, appVars, ret, localBuffer, sleepLeft,
                   terminated, persisted, dropped, stopMark, calls>>

\* What a stream opened with std::ios::trunc writes: its position is the
\* start of the file, whatever other streams have written since the open.
WriteAtStart(f, l) == IF f = <<>> THEN <<l>> ELSE [f EXCEPT ![1] = l]

\* start(): ofs << header; and the end of the block, which closes the stream.
\* Nothing is written through a stream that failed to open.
StartHeader(t) ==
    /\ pc[t] = "st_header"
    /\ file' = IF ofsOpen[t] THEN WriteAtStart(file, HeaderLine) ELSE file
    /\ ofsOpen' = [ofsOpen EXCEPT ![t] = FALSE]
    /\ pc' = [pc EXCEPT ![t] = "st_spawn"]
    /\ UNCHANGED <<loggerVars, queueVars, appVars, ret, localBuffer, sleepLeft,
                   terminated, histVars>>

\* std::terminate ends the process: no thread takes another step.
Aborted == [t \in Threads |-> "aborted"]

\* The std::thread object a new background thread gets.
FreeFlushThread == CHOOSE f \in FlushThreads : pc[f] = None

\* start(): m_flushThread = std::thread(&CSVLogger::flushThreadFunc, this);
\* the new thread exists before the move assignment, and move-assigning to a
\* joinable std::thread calls std::terminate.
StartSpawn(t) ==
    /\ pc[t] = "st_spawn"
    /\ \E f \in FlushThreads : pc[f] = None
    /\ LET f == FreeFlushThread IN
         IF m_flushThread # None
           THEN /\ terminated' = TRUE
                /\ pc' = Aborted
                /\ UNCHANGED <<m_flushThread, lastOp>>
           ELSE /\ m_flushThread' = f
                /\ pc' = [pc EXCEPT ![f] = "ft_check", ![t] = ret[t]]
                /\ lastOp' = [lastOp EXCEPT ![t] =
                      IF lastOp[t] = "open_failed" THEN "start_nofile" ELSE "start"]
                /\ UNCHANGED terminated
    /\ UNCHANGED <<m_running, queueVars, appVars, file, ret, ofsOpen, localBuffer,
                   sleepLeft, persisted, dropped, stopMark, calls>>

\* start(): the move assignment to m_flushThread racing with the one of
\* another caller (a data race on the std::thread object): neither sees a
\* joinable thread, the later write wins and the earlier thread keeps running
\* with no std::thread object owning it.
StartSpawnRace(t) ==
    /\ pc[t] = "st_spawn"
    /\ m_flushThread # None
    /\ \E f \in FlushThreads : pc[f] = None
    /\ m_flushThread' = FreeFlushThread
    /\ pc' = [pc EXCEPT ![FreeFlushThread] = "ft_check", ![t] = ret[t]]
    /\ lastOp' = [lastOp EXCEPT ![t] =
          IF lastOp[t] = "open_failed" THEN "start_nofile" ELSE "start"]
    /\ UNCHANGED <<m_running, queueVars, appVars, file, ret, ofsOpen, localBuffer,
                   sleepLeft, terminated, persisted, dropped, stopMark, calls>>

\* A thread calls csvLogger.stop() directly.
CallStop(t) ==
    /\ pc[t] = "idle"
    /\ calls < MaxCalls
    /\ pc' = [pc EXCEPT ![t] = "sp_check"]
    /\ ret' = [ret EXCEPT ![t] = "idle"]
    /\ stopMark' = [stopMark EXCEPT ![t] = nextId]
    /\ calls' = calls + 1
    /\ lastOp' = [lastOp EXCEPT ![t] = None]
    /\ UNCHANGED <<loggerVars, queueVars, appVars, file, ofsOpen, localBuffer,
                   sleepLeft, terminated, persisted, dropped>>

\* StopCheck without the test of m_running: stop() always goes on.
StopCheck_IgnoresRunning(t) ==
    /\ pc[t] = "sp_check"
    /\ pc' = [pc EXCEPT ![t] = "sp_store"]
    /\ UNCHANGED <<loggerVars, queueVars, appVars, file, ret, ofsOpen, localBuffer,
                   sleepLeft, terminated, histVars>>

\* stop(): if (!m_running.load()) return;
StopCheck(t) ==
    /\ pc[t] = "sp_check"
    /\ IF ~m_running
         THEN Return(t, "stop_noop")
         ELSE /\ pc' = [pc EXCEPT ![t] = "sp_store"]
              /\ UNCHANGED lastOp
    /\ UNCHANGED <<loggerVars, queueVars, appVars, file, ret, ofsOpen, localBuffer,
                   sleepLeft, terminated, persisted, dropped, stopMark, calls>>

\* StopStore without the store: stop() goes on to the join with the flag set.
StopStore_NoStore(t) ==
    /\ pc[t] = "sp_store"
    /\ pc' = [pc EXCEPT ![t] = "sp_joinable"]
    /\ UNCHANGED <<loggerVars, queueVars, appVars, file, ret, ofsOpen,
                   localBuffer, sleepLeft, terminated, histVars>>

\* stop(): m_running.store(false);
StopStore(t) ==
    /\ pc[t] = "sp_store"
    /\ m_running' = FALSE
    /\ pc' = [pc EXCEPT ![t] = "sp_joinable"]
    /\ UNCHANGED <<m_flushThread, queueVars, appVars, file, ret, ofsOpen,
                   localBuffer, sleepLeft, terminated, histVars>>

\* stop(): if (m_flushThread.joinable())
StopJoinable(t) ==
    /\ pc[t] = "sp_joinable"
    /\ pc' = [pc EXCEPT ![t] = IF m_flushThread # None THEN "sp_join" ELSE "fl_lock"]
    /\ UNCHANGED <<loggerVars, queueVars, appVars, file, ret, ofsOpen, localBuffer,
                   sleepLeft, terminated, histVars>>

\* StopJoin followed by the return of stop(), without the final flushToDisk().
StopJoin_NoFinalFlush(t) ==
    /\ pc[t] = "sp_join"
    /\ m_flushThread # None
    /\ pc[m_flushThread] = "done"
    /\ pc' = [pc EXCEPT ![m_flushThread] = None, ![t] = ret[t]]
    /\ lastOp' = [lastOp EXCEPT ![t] = "stop"]
    /\ m_flushThread' = None
    /\ UNCHANGED <<m_running, queueVars, appVars, file, ret, ofsOpen, localBuffer,
                   sleepLeft, terminated, persisted, dropped, stopMark, calls>>

\* StopJoin that does not wait: the thread is detached instead of joined and
\* stop() goes on to its final flush while the loop may still be running.
StopJoin_NoWait(t) ==
    /\ pc[t] = "sp_join"
    /\ m_flushThread # None
    /\ pc' = [pc EXCEPT ![t] = "fl_lock"]
    /\ m_flushThread' = None
    /\ UNCHANGED <<m_running, queueVars, appVars, file, ret, ofsOpen, localBuffer,
                   sleepLeft, terminated, histVars>>

\* stop(): m_flushThread.join(); returns once the thread has exited and
\* leaves m_flushThread not joinable.
StopJoin(t) ==
    /\ pc[t] = "sp_join"
    /\ m_flushThread # None
    /\ pc[m_flushThread] = "done"
    /\ pc' = [pc EXCEPT ![m_flushThread] = None, ![t] = "fl_lock"]
    /\ m_flushThread' = None
    /\ UNCHANGED <<m_running, queueVars, appVars, file, ret, ofsOpen, localBuffer,
                   sleepLeft, terminated, histVars>>

\* stop(): m_flushThread.join() on a thread object another caller has joined
\* in the meantime: join() on a non-joinable std::thread throws
\* std::system_error, which nothing catches; racing with the other join it
\* may also return normally.
StopJoinRace(t) ==
    /\ pc[t] = "sp_join"
    /\ m_flushThread = None
    /\ \/ /\ terminated' = TRUE
          /\ pc' = Aborted
       \/ /\ pc' = [pc EXCEPT ![t] = "fl_lock"]
          /\ UNCHANGED terminated
    /\ UNCHANGED <<loggerVars, queueVars, appVars, file, ret, ofsOpen, localBuffer,
                   sleepLeft, histVars>>

\* ---------------------------------------------------------- flushToDisk
\* flushToDisk() returns: to the loop of flushThreadFunc, or out of stop().
FlushReturn(t) ==
    IF t \in FlushThreads
      THEN /\ pc' = [pc EXCEPT ![t] = "ft_check"]
           /\ UNCHANGED lastOp
      ELSE Return(t, "stop")

\* flushToDisk(): std::lock_guard<std::mutex> lock(m_queueMutex);
FlushLock(t) ==
    /\ pc[t] = "fl_lock"
    /\ m_queueMutex = None
    /\ m_queueMutex' = t
    /\ pc' = [pc EXCEPT ![t] = "fl_drain"]
    /\ UNCHANGED <<loggerVars, m_eventQueue, nextId, appVars, file, ret, ofsOpen,
                   localBuffer, sleepLeft, terminated, histVars>>

\* FlushDrain with the lock_guard in the scope of the whole function: the
\* lock is still held when the block ends.
FlushDrain_KeepsLock(t) ==
    /\ pc[t] = "fl_drain"
    /\ m_queueMutex = t
    /\ m_eventQueue' = <<>>
    /\ IF m_eventQueue = <<>>
         THEN /\ FlushReturn(t)
              /\ m_queueMutex' = None
              /\ UNCHANGED localBuffer
         ELSE /\ localBuffer' = [localBuffer EXCEPT ![t] = m_eventQueue]
              /\ pc' = [pc EXCEPT ![t] = "fl_open"]
              /\ UNCHANGED <<lastOp, m_queueMutex>>
    /\ UNCHANGED <<loggerVars, nextId, appVars, file, ret, ofsOpen, sleepLeft,
                   terminated, persisted, dropped, stopMark, calls>>

\* flushToDisk(): the loop that moves every queued event to localBuffer, the
\* unlock at the end of the block, and if (localBuffer.empty()) return;
FlushDrain(t) ==
    /\ pc[t] = "fl_drain"
    /\ m_queueMutex = t
    /\ m_eventQueue' = <<>>
    /\ m_queueMutex' = None
    /\ IF m_eventQueue = <<>>
         THEN /\ FlushReturn(t)
              /\ UNCHANGED localBuffer
         ELSE /\ localBuffer' = [localBuffer EXCEPT ![t] = m_eventQueue]
              /\ pc' = [pc EXCEPT ![t] = "fl_open"]
              /\ UNCHANGED lastOp
    /\ UNCHANGED <<loggerVars, nextId, appVars, file, ret, ofsOpen, sleepLeft,
                   terminated, persisted, dropped, stopMark, calls>>

\* FlushOpen that puts the drained events back at the head of the queue when
\* the open fails, instead of discarding them.
FlushOpen_Requeue(t) ==
    /\ pc[t] = "fl_open"
    /\ \/ /\ pc' = [pc EXCEPT ![t] = "fl_write"]
          /\ UNCHANGED <<localBuffer, m_eventQueue, lastOp>>
       \/ /\ m_eventQueue' = localBuffer[t] \o m_eventQueue
          /\ localBuffer' = [localBuffer EXCEPT ![t] = <<>>]
          /\ FlushReturn(t)
    /\ UNCHANGED <<loggerVars, m_queueMutex, nextId, appVars, file, ret, ofsOpen,
                   sleepLeft, terminated, persisted, dropped, stopMark, calls>>

\* flushToDisk(): std::ofstream ofs(m_filename, std::ios::app); and
\* if (!ofs.is_open()) { std::cerr << ...; return; }
FlushOpen(t) ==
    /\ pc[t] = "fl_open"
    /\ \/ /\ pc' = [pc EXCEPT ![t] = "fl_write"]
          /\ UNCHANGED <<localBuffer, dropped, lastOp>>
       \/ /\ dropped' = dropped \cup Ids(localBuffer[t])
          /\ localBuffer' = [localBuffer EXCEPT ![t] = <<>>]
          /\ FlushReturn(t)
    /\ UNCHANGED <<loggerVars, queueVars, appVars, file, ret, ofsOpen, sleepLeft,
                   terminated, persisted, stopMark, calls>>

\* FlushWrite that takes the events from the back of localBuffer.
FlushWrite_Lifo(t) ==
    /\ pc[t] = "fl_write"
    /\ localBuffer[t] # <<>>
    /\ LET evt == localBuffer[t][Len(localBuffer[t])] IN
         /\ file' = Append(file, CsvLine(evt))
         /\ persisted' = persisted \cup {evt.id}
    /\ localBuffer' = [localBuffer EXCEPT ![t] =
                          SubSeq(localBuffer[t], 1, Len(localBuffer[t]) - 1)]
    /\ IF Len(localBuffer[t]) = 1
         THEN FlushReturn(t)
         ELSE UNCHANGED <<pc, lastOp>>
    /\ UNCHANGED <<loggerVars, queueVars, appVars, ret, ofsOpen, sleepLeft,
                   terminated, dropped, stopMark, calls>>

\* flushToDisk(): one iteration of the for loop that writes a line per event
\* of localBuffer; after the last one, ofs.close() and the return.
FlushWrite(t) ==
    /\ pc[t] = "fl_write"
    /\ localBuffer[t] # <<>>
    /\ LET evt == Head(localBuffer[t]) IN
         /\ file' = Append(file, CsvLine(evt))
         /\ persisted' = persisted \cup {evt.id}
    /\ localBuffer' = [localBuffer EXCEPT ![t] = Tail(localBuffer[t])]
    /\ IF Len(localBuffer[t]) = 1
         THEN FlushReturn(t)
         ELSE UNCHANGED <<pc, lastOp>>
    /\ UNCHANGED <<loggerVars, queueVars, appVars, ret, ofsOpen, sleepLeft,
                   terminated, dropped, stopMark, calls>>

\* ------------------------------------------------------ flushThreadFunc
\* flushThreadFunc(): while (m_running.load()), then the start of sleep_for.
FlushLoopCheck(f) ==
    /\ pc[f] = "ft_check"
    /\ IF m_running
         THEN /\ pc' = [pc EXCEPT ![f] = "ft_sleep"]
              /\ sleepLeft' = [sleepLeft EXCEPT ![f] = TRUE]
         ELSE /\ pc' = [pc EXCEPT ![f] = "done"]
              /\ UNCHANGED sleepLeft
    /\ UNCHANGED <<loggerVars, queueVars, appVars, file, ret, ofsOpen, localBuffer,
                   terminated, histVars>>

\* The flush interval of a thread in sleep_for elapses.
TimerTick(f) ==
    /\ pc[f] = "ft_sleep"
    /\ sleepLeft[f]
    /\ sleepLeft' = [sleepLeft EXCEPT ![f] = FALSE]
    /\ UNCHANGED <<loggerVars, queueVars, appVars, file, pc, ret, ofsOpen,
                   localBuffer, terminated, histVars>>

\* FlushWake without the call of flushToDisk(): the loop only sleeps.
FlushWake_NoFlush(f) ==
    /\ pc[f] = "ft_sleep"
    /\ ~sleepLeft[f]
    /\ pc' = [pc EXCEPT ![f] = IF m_running THEN "ft_check" ELSE "done"]
    /\ UNCHANGED <<loggerVars, queueVars, appVars, file, ret, ofsOpen, localBuffer,
                   sleepLeft, terminated, histVars>>

\* FlushWake without the test of m_running after the sleep: the loop always
\* calls flushToDisk() when it wakes.
FlushWake_NoBreak(f) ==
    /\ pc[f] = "ft_sleep"
    /\ ~sleepLeft[f]
    /\ pc' = [pc EXCEPT ![f] = "fl_lock"]
    /\ UNCHANGED <<loggerVars, queueVars, appVars, file, ret, ofsOpen, localBuffer,
                   sleepLeft, terminated, histVars>>

\* flushThreadFunc(): sleep_for returns when the interval has elapsed, then
\* if (!m_running.load()) break; flushToDisk();
FlushWake(f) ==
    /\ pc[f] = "ft_sleep"
    /\ ~sleepLeft[f]
    /\ pc' = [pc EXCEPT ![f] = IF m_running THEN "fl_lock" ELSE "done"]
    /\ UNCHANGED <<loggerVars, queueVars, appVars, file, ret, ofsOpen, localBuffer,
                   sleepLeft, terminated, histVars>>

\* ------------------------------------------------------------- logEvent
\* A producer thread calls csvLogger.logEvent(evt) and takes the lock:
\* std::lock_guard<std::mutex> lock(m_queueMutex);
ProducerCall(t) ==
    /\ pc[t] = "idle"
    /\ m_queueMutex = None
    /\ nextId <= MaxEvents
    /\ m_queueMutex' = t
    /\ pc' = [pc EXCEPT ![t] = "lg_push"]
    /\ UNCHANGED <<loggerVars, m_eventQueue, nextId, appVars, file, ret, ofsOpen,
                   localBuffer, sleepLeft, terminated, histVars>>

\* logEvent() called by a hook callback or a polling thread:
\* std::lock_guard<std::mutex> lock(m_queueMutex);
LogLock(t) ==
    /\ pc[t] = "lg_lock"
    /\ m_queueMutex = None
    /\ nextId <= MaxEvents
    /\ m_queueMutex' = t
    /\ pc' = [pc EXCEPT ![t] = "lg_push"]
    /\ UNCHANGED <<loggerVars, m_eventQueue, nextId, appVars, file, ret, ofsOpen,
                   localBuffer, sleepLeft, terminated, histVars>>

\* The lifecycle state Stopped: the running flag is clear and no stop() is
\* between its store to the flag and its return.
Stopped ==
    /\ ~m_running
    /\ \A t \in Callers :
          pc[t] \notin {"sp_joinable", "sp_join", "fl_lock", "fl_drain", "fl_open", "fl_write"}

\* LogPush with a test of the running flag: an event offered while the flag
\* is clear is rejected.
LogPush_RejectsWhenStopped(t) ==
    /\ pc[t] = "lg_push"
    /\ m_queueMutex = t
    /\ m_eventQueue' = IF m_running THEN Append(m_eventQueue, InputEvent(t, nextId))
                                    ELSE m_eventQueue
    /\ nextId' = IF m_running THEN nextId + 1 ELSE nextId
    /\ m_queueMutex' = None
    /\ pc' = [pc EXCEPT ![t] = IF t \in Pollers THEN "pl_check" ELSE "idle"]
    /\ UNCHANGED <<loggerVars, appVars, file, ret, ofsOpen, localBuffer, sleepLeft,
                   terminated, histVars>>

\* logEvent(): m_eventQueue.push(evt); and the unlock on return.
LogPush(t) ==
    /\ pc[t] = "lg_push"
    /\ m_queueMutex = t
    /\ m_eventQueue' = Append(m_eventQueue, InputEvent(t, nextId))
    /\ nextId' = nextId + 1
    /\ m_queueMutex' = None
    /\ pc' = [pc EXCEPT ![t] = IF t \in Pollers THEN "pl_check" ELSE "idle"]
    /\ UNCHANGED <<loggerVars, appVars, file, ret, ofsOpen, localBuffer, sleepLeft,
                   terminated, histVars>>


\* ------------------------------------------------- hooks and polling
\* LowLevelMouseProc / LowLevelKeyboardProc: an input event arrives while the
\* hooks are installed; if (nCode >= 0 && g_config.isRunning.load()) the
\* callback builds an event and calls logEvent.
HookCallback(t) ==
    /\ pc[t] = "idle"
    /\ hooked
    /\ isRunning
    /\ nextId <= MaxEvents
    /\ pc' = [pc EXCEPT ![t] = "lg_lock"]
    /\ UNCHANGED <<loggerVars, queueVars, appVars, file, ret, ofsOpen, localBuffer,
                   sleepLeft, terminated, histVars>>

\* cursorPollingThread(): while (g_config.isRunning.load()); in the loop,
\* GetCursorPos and the call of logEvent.  The sleep_for that ends an
\* iteration touches no shared state and is part of the step before it.
PollCheck(q) ==
    /\ pc[q] = "pl_check"
    /\ \/ /\ isRunning
          /\ nextId <= MaxEvents
          /\ pc' = [pc EXCEPT ![q] = "lg_lock"]
       \/ /\ ~isRunning
          /\ pc' = [pc EXCEPT ![q] = None]
    /\ UNCHANGED <<loggerVars, queueVars, appVars, file, ret, ofsOpen, localBuffer,
                   sleepLeft, terminated, histVars>>

\* ------------------------------------------- startLogging / stopLogging
\* The CLI thread calls startLogging(intervalMs).
CallStartLogging(t) ==
    /\ pc[t] = "idle"
    /\ calls < MaxCalls
    /\ pc' = [pc EXCEPT ![t] = "sl_check"]
    /\ calls' = calls + 1
    /\ lastOp' = [lastOp EXCEPT ![t] = None]
    /\ UNCHANGED <<loggerVars, queueVars, appVars, file, ret, ofsOpen, localBuffer,
                   sleepLeft, terminated, persisted, dropped, stopMark>>

\* startLogging(): if (g_config.isRunning.load()) { print; return; }
StartLoggingCheck(t) ==
    /\ pc[t] = "sl_check"
    /\ IF isRunning
         THEN /\ pc' = [pc EXCEPT ![t] = "idle"]
              /\ lastOp' = [lastOp EXCEPT ![t] = "startLogging_noop"]
         ELSE /\ pc' = [pc EXCEPT ![t] = "sl_store"]
              /\ UNCHANGED lastOp
    /\ UNCHANGED <<loggerVars, queueVars, appVars, file, ret, ofsOpen, localBuffer,
                   sleepLeft, terminated, persisted, dropped, stopMark, calls>>

\* startLogging(): g_config.isRunning.store(true); and the call of
\* g_config.csvLogger.start().  The store to pollIntervalMs before it only
\* sets the length of the polling thread's sleep, which the model leaves open.
StartLoggingStore(t) ==
    /\ pc[t] = "sl_store"
    /\ isRunning' = TRUE
    /\ pc' = [pc EXCEPT ![t] = "st_check"]
    /\ ret' = [ret EXCEPT ![t] = "sl_hooks"]
    /\ UNCHANGED <<loggerVars, queueVars, hooked, file, ofsOpen, localBuffer,
                   sleepLeft, terminated, histVars>>

\* startLogging(): installHooks();
InstallHooks(t) ==
    /\ pc[t] = "sl_hooks"
    /\ hooked' = TRUE
    /\ pc' = [pc EXCEPT ![t] = "sl_poll"]
    /\ UNCHANGED <<loggerVars, queueVars, isRunning, file, ret, ofsOpen,
                   localBuffer, sleepLeft, terminated, histVars>>

\* The thread a new cursor polling thread runs as.
FreePoller == CHOOSE q \in Pollers : pc[q] = None

\* startLogging(): std::thread polling(cursorPollingThread); polling.detach();
\* and the return.
LaunchPolling(t) ==
    /\ pc[t] = "sl_poll"
    /\ \E q \in Pollers : pc[q] = None
    /\ pc' = [pc EXCEPT ![FreePoller] = "pl_check", ![t] = "idle"]
    /\ lastOp' = [lastOp EXCEPT ![t] = "startLogging"]
    /\ UNCHANGED <<loggerVars, queueVars, appVars, file, ret, ofsOpen, localBuffer,
                   sleepLeft, terminated, persisted, dropped, stopMark, calls>>

\* The CLI thread calls stopLogging().
CallStopLogging(t) ==
    /\ pc[t] = "idle"
    /\ calls < MaxCalls
    /\ pc' = [pc EXCEPT ![t] = "sg_check"]
    /\ calls' = calls + 1
    /\ lastOp' = [lastOp EXCEPT ![t] = None]
    /\ UNCHANGED <<loggerVars, queueVars, appVars, file, ret, ofsOpen, localBuffer,
                   sleepLeft, terminated, persisted, dropped, stopMark>>

\* stopLogging(): if (!g_config.isRunning.load()) { print; return; }
StopLoggingCheck(t) ==
    /\ pc[t] = "sg_check"
    /\ IF ~isRunning
         THEN /\ pc' = [pc EXCEPT ![t] = "idle"]
              /\ lastOp' = [lastOp EXCEPT ![t] = "stopLogging_noop"]
         ELSE /\ pc' = [pc EXCEPT ![t] = "sg_store"]
              /\ UNCHANGED lastOp
    /\ UNCHANGED <<loggerVars, queueVars, appVars, file, ret, ofsOpen, localBuffer,
                   sleepLeft, terminated, persisted, dropped, stopMark, calls>>

\* stopLogging(): g_config.isRunning.store(false);
StopLoggingStore(t) ==
    /\ pc[t] = "sg_store"
    /\ isRunning' = FALSE
    /\ pc' = [pc EXCEPT ![t] = "sg_unhook"]
    /\ UNCHANGED <<loggerVars, queueVars, hooked, file, ret, ofsOpen, localBuffer,
                   sleepLeft, terminated, histVars>>

\* stopLogging(): removeHooks(); and the call of g_config.csvLogger.stop().
RemoveHooks(t) ==
    /\ pc[t] = "sg_unhook"
    /\ hooked' = FALSE
    /\ pc' = [pc EXCEPT ![t] = "sp_check"]
    /\ ret' = [ret EXCEPT ![t] = "sg_done"]
    /\ stopMark' = [stopMark EXCEPT ![t] = nextId]
    /\ UNCHANGED <<loggerVars, queueVars, isRunning, file, ofsOpen, localBuffer,
                   sleepLeft, terminated, persisted, dropped, lastOp, calls>>

\* stopLogging(): the message after csvLogger.stop() and the return.
StopLoggingReturn(t) ==
    /\ pc[t] = "sg_done"
    /\ pc' = [pc EXCEPT ![t] = "idle"]
    /\ lastOp' = [lastOp EXCEPT ![t] = "stopLogging"]
    /\ UNCHANGED <<loggerVars, queueVars, appVars, file, ret, ofsOpen, localBuffer,
                   sleepLeft, terminated, persisted, dropped, stopMark, calls>>

\* ------------------------------------------------------- specifications
\* The sink driven by one thread that calls start() and stop(), with
\* producer threads calling logEvent() at any time.
Next ==
    \/ CallStart("c1")
    \/ CallStop("c1")
    \/ StartCheck("c1")
    \/ StartStore("c1")
    \/ StartOpen("c1")
    \/ StartHeader("c1")
    \/ StartSpawn("c1")
    \/ StopCheck("c1")
    \/ StopStore("c1")
    \/ StopJoinable("c1")
    \/ StopJoin("c1")
    \/ \E t \in Flushers : FlushLock(t)
    \/ \E t \in Flushers : FlushDrain(t)
    \/ \E t \in Flushers : FlushOpen(t)
    \/ \E t \in Flushers : FlushWrite(t)
    \/ \E f \in FlushThreads : FlushLoopCheck(f)
    \/ \E f \in FlushThreads : TimerTick(f)
    \/ \E f \in FlushThreads : FlushWake(f)
    \/ \E p \in Producers : ProducerCall(p)
    \/ \E p \in Producers : LogPush(p)

Spec == Init /\ [][Next]_vars

\* Fair scheduling: a thread that is inside a call, and the clock, keep
\* taking steps; whether and when a thread makes a new call is left open.
Fairness ==
    /\ \A f \in FlushThreads :
          /\ WF_vars(FlushLoopCheck(f))
          /\ WF_vars(TimerTick(f))
          /\ WF_vars(FlushWake(f))
    /\ \A t \in Flushers :
          /\ WF_vars(FlushLock(t))
          /\ WF_vars(FlushDrain(t))
          /\ WF_vars(FlushOpen(t))
          /\ WF_vars(FlushWrite(t))
    /\ \A p \in Producers : WF_vars(LogPush(p))
    /\ WF_vars(StartCheck("c1"))
    /\ WF_vars(StartStore("c1"))
    /\ WF_vars(StartOpen("c1"))
    /\ WF_vars(StartHeader("c1"))
    /\ WF_vars(StartSpawn("c1"))
    /\ WF_vars(StopCheck("c1"))
    /\ WF_vars(StopStore("c1"))
    /\ WF_vars(StopJoinable("c1"))
    /\ WF_vars(StopJoin("c1"))

SpecLive == Init /\ [][Next]_vars /\ Fairness

\* The sink with start() and stop() called from two threads.
NextConc ==
    \/ \E t \in Callers : CallStart(t)
    \/ \E t \in Callers : CallStop(t)
    \/ \E t \in Callers : StartCheck(t)
    \/ \E t \in Callers : StartStore(t)
    \/ \E t \in Callers : StartOpen(t)
    \/ \E t \in Callers : StartHeader(t)
    \/ \E t \in Callers : StartSpawn(t)
    \/ \E t \in Callers : StartSpawnRace(t)
    \/ \E t \in Callers : StopCheck(t)
    \/ \E t \in Callers : StopStore(t)
    \/ \E t \in Callers : StopJoinable(t)
    \/ \E t \in Callers : StopJoin(t)
    \/ \E t \in Callers : StopJoinRace(t)
    \/ \E t \in Flushers : FlushLock(t)
    \/ \E t \in Flushers : FlushDrain(t)
    \/ \E t \in Flushers : FlushOpen(t)
    \/ \E t \in Flushers : FlushWrite(t)
    \/ \E f \in FlushThreads : FlushLoopCheck(f)
    \/ \E f \in FlushThreads : TimerTick(f)
    \/ \E f \in FlushThreads : FlushWake(f)
    \/ ProducerCall("p1")
    \/ LogPush("p1")

SpecConc == Init /\ [][NextConc]_vars

\* The program: the CLI thread calls startLogging() and stopLogging(), and may
\* call the logger's start() and stop(); the producers are the hook callbacks
\* and the cursor polling threads.
NextApp ==
    \/ CallStartLogging("c1")
    \/ CallStopLogging("c1")
    \/ CallStart("c1")
    \/ CallStop("c1")
    \/ StartLoggingCheck("c1")
    \/ StartLoggingStore("c1")
    \/ InstallHooks("c1")
    \/ LaunchPolling("c1")
    \/ StopLoggingCheck("c1")
    \/ StopLoggingStore("c1")
    \/ RemoveHooks("c1")
    \/ StopLoggingReturn("c1")
    \/ StartCheck("c1")
    \/ StartStore("c1")
    \/ StartOpen("c1")
    \/ StartHeader("c1")
    \/ StartSpawn("c1")
    \/ StopCheck("c1")
    \/ StopStore("c1")
    \/ StopJoinable("c1")
    \/ StopJoin("c1")
    \/ \E t \in Flushers : FlushLock(t)
    \/ \E t \in Flushers : FlushDrain(t)
    \/ \E t \in Flushers : FlushOpen(t)
    \/ \E t \in Flushers : FlushWrite(t)
    \/ \E f \in FlushThreads : FlushLoopCheck(f)
    \/ \E f \in FlushThreads : TimerTick(f)
    \/ \E f \in FlushThreads : FlushWake(f)
    \/ HookCallback(HookThread)
    \/ \E q \in Pollers : PollCheck(q)
    \/ \E t \in Pollers \cup {HookThread} : LogLock(t)
    \/ \E t \in Pollers \cup {HookThread} : LogPush(t)

SpecApp == Init /\ [][NextApp]_vars


\* -------------------------------------------------------------- properties
\* The background flush threads that exist.
LiveFlushThreads == {f \in FlushThreads : pc[f] # None}

\* Number of header lines in a file.
HeaderCount(f) == Len(SelectSeq(f, LAMBDA l : l.line = "header"))

\* The events whose logEvent() has completed.
Enqueued == 1 .. (nextId - 1)

\* Caller t takes the step on which its stop() returns out of the final
\* flushToDisk().
StopReturns(t) ==
    /\ pc[t] \in {"fl_drain", "fl_open", "fl_write"}
    /\ pc'[t] = ret[t]

\* C1: when stop() has returned from a running sink and no append-open has
\* failed, every event whose logEvent() completed before stop() was invoked
\* has been written to the file.
C1_StopPersistsEarlierEvents ==
    \A t \in Callers :
        (lastOp[t] = "stop" /\ dropped = {}) => (1 .. (stopMark[t] - 1)) \subseteq persisted

\* C1 witness: stop() has returned after the final flush wrote an event that
\* was enqueued before the call.
C1_Witness ==
    /\ lastOp["c1"] = "stop"
    /\ dropped = {}
    /\ stopMark["c1"] = 2
    /\ file = <<HeaderLine, CsvLine(InputEvent("p1", 1))>>
    /\ LiveFlushThreads = {}

\* C2: at the step on which stop() returns, with no append-open failed, every
\* event whose logEvent() has completed is in the file and the queue is empty.
C2_StopLeavesNothingQueued ==
    [][\A t \in Callers :
          (StopReturns(t) /\ dropped' = {}) =>
              /\ m_eventQueue' = <<>>
              /\ Enqueued' \subseteq persisted']_vars

\* C3: at the step on which stop() returns, with the header in place, no
\* append-open failed and no record destroyed by a later truncation, the
\* records of the file are the enqueued events, each exactly once.
C3_EachEventExactlyOnce ==
    [][\A t \in Callers :
          (/\ StopReturns(t)
           /\ dropped' = {}
           /\ file' # <<>>
           /\ file'[1] = HeaderLine
           /\ persisted' \subseteq Ids(Records(file'))) =>
              /\ Ids(Records(file')) = Enqueued'
              /\ Len(Records(file')) = Cardinality(Enqueued')]_vars

\* C4: the records of the file are in the order in which their events entered
\* the queue; in particular two events of one producer are in the order in
\* which that producer enqueued them.
C4_FileOrderIsQueueOrder ==
    LET r == Records(file) IN
      \A i, j \in DOMAIN r : i < j => r[i].id < r[j].id

\* C4 witness: stop() has returned and two events of one producer are in the
\* file, in the order in which the producer enqueued them.
C4_Witness ==
    /\ file = <<HeaderLine, CsvLine(InputEvent("p1", 1)), CsvLine(InputEvent("p1", 2))>>
    /\ lastOp["c1"] = "stop"
    /\ stopMark["c1"] = 3


\* The cursor polling threads that exist.
LivePollers == {q \in Pollers : pc[q] # None}

\* Caller t takes the step on which start() finds the sink running.
StartFindsRunning(t) == pc[t] = "st_check" /\ pc'[t] # "st_check" /\ m_running

\* Caller t takes the step on which startLogging() finds logging running.
StartLoggingFindsRunning(t) == pc[t] = "sl_check" /\ pc'[t] # "sl_check" /\ isRunning

C6_FailedOpenLeavesStopped ==
    \A t \in Callers :
        lastOp[t] = "start_nofile" => (~m_running /\ LiveFlushThreads = {})

\* C7: concurrent start() and stop() calls behave as if serialized: at most
\* one background flush loop exists, at most one caller performs a final
\* flush at a time, and no call ends in std::terminate.
C7_LifecycleSerialized ==
    /\ Cardinality(LiveFlushThreads) <= 1
    /\ Cardinality({t \in Callers : pc[t] \in {"fl_lock", "fl_drain", "fl_open", "fl_write"}}) <= 1
    /\ ~terminated

\* C8: once the running flag is cleared, a background loop that is in its
\* sleep can exit at once, whether or not the flush interval has elapsed.
C8_ExitDoesNotWaitForTimer ==
    \A f \in FlushThreads :
        (pc[f] = "ft_sleep" /\ ~m_running) => ENABLED FlushWake(f)


\* C9: under fair scheduling, an event that is in the queue of a running sink
\* is eventually appended to the file (or discarded by a flush whose
\* append-open failed) unless the sink stops running: the periodic flush
\* alone persists it.
C9_QueuedEventEventuallyFlushed ==
    \A i \in 1 .. MaxEvents :
        (i \in Ids(m_eventQueue) /\ m_running) ~>
            (i \in persisted \/ i \in dropped \/ ~m_running)

\* C9 witness: an event was appended by a periodic flush: the sink is running
\* and stop() was never called.
C9_Witness ==
    /\ m_running
    /\ stopMark["c1"] = 0
    /\ pc["c1"] = "idle"
    /\ file = <<HeaderLine, CsvLine(InputEvent("p1", 1))>>
    /\ pc["f1"] \in {"ft_check", "ft_sleep"}

\* Thread t takes the step on which the append-open of its flush fails.
AppendOpenFails(t) == pc[t] = "fl_open" /\ pc'[t] \notin {"fl_open", "fl_write"}

\* C10: a flush whose append-open fails discards the events it drained: they
\* are not put back in the queue, the file is left as it was, the process
\* goes on and a background loop goes back to the top of its loop; an event
\* so discarded is never written.
C10_FailedAppendDropsBatch ==
    [][/\ \A t \in Flushers :
             AppendOpenFails(t) =>
                /\ file' = file
                /\ m_eventQueue' = m_eventQueue
                /\ localBuffer'[t] = <<>>
                /\ Ids(localBuffer[t]) \subseteq dropped'
                /\ Ids(localBuffer[t]) \cap Ids(m_eventQueue') = {}
                /\ ~terminated'
                /\ t \in FlushThreads => pc'[t] = "ft_check"
       /\ dropped' \cap Ids(file') = {}
       /\ dropped' \cap persisted' = {}]_vars

\* C10 witness: after a periodic flush dropped an event, the same loop wrote
\* an event enqueued later.
C10_Witness ==
    /\ m_running
    /\ stopMark["c1"] = 0
    /\ dropped = {1}
    /\ file = <<HeaderLine, CsvLine(InputEvent("p1", 2))>>


\* s is a prefix of t.
IsPrefix(s, t) == Len(s) <= Len(t) /\ SubSeq(t, 1, Len(s)) = s

\* The events drained from the queue and not yet written or discarded.
InFlight == UNION {Ids(localBuffer[t]) : t \in Flushers}

\* Caller t is inside an effective start(), past its test of the flag.
InStart(t) == pc[t] \in {"st_store", "st_open", "st_header", "st_spawn"}

StopFindsStopped(t) == pc[t] = "sp_check" /\ pc'[t] # "sp_check" /\ ~m_running

\* Caller t takes the step on which stopLogging() finds logging stopped.
StopLoggingFindsStopped(t) == pc[t] = "sg_check" /\ pc'[t] # "sg_check" /\ ~isRunning

\* Caller t takes a step of stopLogging() outside its call of stop().
StopLoggingStep(t) ==
    /\ pc[t] \in {"sg_check", "sg_store", "sg_unhook", "sg_done"}
    /\ pc'[t] # pc[t]

\* C12: a stop() that finds the sink stopped returns at once, and a
\* stopLogging() that finds logging stopped returns at once: no error, no
\* drain, no write to the file, the queue and the running flag as they were,
\* also when events are buffered in the queue.  A stopLogging() made while
\* logging is on but the sink is already stopped reaches such a stop(): none
\* of its own steps drains the queue, writes the file or sets the running flag.
C12_StopWhileStoppedIsNoop ==
    [][\A t \in Callers :
          /\ (StopFindsStopped(t) \/ StopLoggingFindsStopped(t)) =>
                /\ file' = file
                /\ m_eventQueue' = m_eventQueue
                /\ localBuffer' = localBuffer
                /\ m_running' = m_running
                /\ isRunning' = isRunning
                /\ hooked' = hooked
                /\ m_flushThread' = m_flushThread
                /\ LiveFlushThreads' = LiveFlushThreads
                /\ persisted' = persisted
                /\ dropped' = dropped
                /\ ~terminated'
          /\ StopFindsStopped(t) => (pc'[t] = ret[t] /\ ~m_running')
          /\ StopLoggingFindsStopped(t) => pc'[t] = "idle"
          /\ StopLoggingStep(t) =>
                /\ file' = file
                /\ m_eventQueue' = m_eventQueue
                /\ localBuffer' = localBuffer
                /\ m_running' = m_running
                /\ ~terminated']_vars

\* C12 witness: a stop() has returned without effect from a stopped sink
\* whose queue held an event buffered while it was stopped (no event was
\* enqueued since the call); the event is still queued and not in the file.
C12_Witness ==
    /\ lastOp["c1"] = "stop_noop"
    /\ stopMark["c1"] = nextId
    /\ ~m_running
    /\ LiveFlushThreads = {}
    /\ m_eventQueue # <<>>
    /\ Ids(m_eventQueue) \cap persisted = {}
    /\ Records(file) = <<>>


\* The sink is in a Running period: an effective start() has returned and the
\* stop() that ends the period has not.
InPeriod == ~Stopped /\ \A t \in Callers : ~InStart(t)

\* Caller t takes the step of start() that opens the file with std::ios::trunc.
StartOpens(t) == pc[t] = "st_open" /\ pc'[t] = "st_header"

\* C13: every effective start() truncates the file, destroying the records of
\* the previous period, and no other step removes or rewrites a line; in a
\* Running period, through the final flush of stop(), the first line of the
\* file is the header, the header occurs exactly once and the file changes
\* only by the append of a record.
C13_TruncateOnceThenAppend ==
    [][/\ \A t \in Callers : StartOpens(t) => file' = <<>>
       /\ ~IsPrefix(file, file') => \E t \in Callers : StartOpens(t)
       /\ InPeriod' =>
             /\ file' # <<>>
             /\ file'[1] = HeaderLine
             /\ HeaderCount(file') = 1
       /\ (InPeriod /\ InPeriod') =>
             \/ file' = file
             \/ \E t \in Flushers :
                   /\ localBuffer[t] # <<>>
                   /\ file' = Append(file, CsvLine(Head(localBuffer[t])))]_vars


\* Thread t is at an open of, or a write to, the file.
AtFileIO(t) == pc[t] \in {"st_open", "st_header", "fl_open", "fl_write"}

\* C14: the thread that holds the queue lock is inside logEvent()'s push or
\* inside the drain block of flushToDisk(), never at an open of or a write to
\* the file; a step of logEvent() leaves the file as it is, and every step
\* that changes the file is taken while its thread does not hold the lock.
C14_NoLockDuringFileIO ==
    [][/\ \A t \in Threads :
             /\ m_queueMutex' = t => pc'[t] \in {"lg_push", "fl_drain"}
             /\ AtFileIO(t) => m_queueMutex # t
             /\ (pc[t] \in {"lg_lock", "lg_push"} /\ pc'[t] # pc[t]) => file' = file
       /\ \A p \in Producers : (pc[p] = "idle" /\ pc'[p] # "idle") => file' = file
       /\ file' # file =>
             \E t \in Flushers : AtFileIO(t) /\ pc'[t] # "fl_drain" /\ m_queueMutex # t]_vars

\* C14 witness: a producer holds the lock, about to push, while the flush
\* thread has the file open for append and a drained event still to write.
C14_Witness ==
    /\ pc["f1"] = "fl_write"
    /\ Ids(localBuffer["f1"]) = {1}
    /\ file = <<HeaderLine>>
    /\ m_queueMutex = "p2"
    /\ pc["p2"] = "lg_push"


\* C15: under fair scheduling a stop() that found the sink running returns:
\* once it is about to clear the running flag, the background loop exits, the
\* join returns, the final flush completes and stop() returns with the flag
\* clear and no background thread left.
C15_StopTerminates ==
    \A t \in {"c1"} :
        (pc[t] = "sp_store") ~>
            (/\ pc[t] = ret[t]
             /\ lastOp[t] = "stop"
             /\ ~m_running
             /\ m_flushThread = None
             /\ LiveFlushThreads = {}
             /\ localBuffer[t] = <<>>)

\* C15 witness: stop() has returned from a running sink that held two
\* events: the background loop has exited and was joined, the flag is clear
\* and both events are in the file.
C15_Witness ==
    /\ lastOp["c1"] = "stop"
    /\ pc["c1"] = "idle"
    /\ calls = 2
    /\ stopMark["c1"] = 3
    /\ ~m_running
    /\ LiveFlushThreads = {}
    /\ m_eventQueue = <<>>
    /\ file = <<HeaderLine, CsvLine(InputEvent("p2", 1)), CsvLine(InputEvent("p1", 2))>>


\* The threads that are inside flushToDisk() between the drain of the queue
\* and the end of the write of the drained batch.
Draining == {t \in Flushers : pc[t] \in {"fl_open", "fl_write"}}

\* C16: at most one execution of flushToDisk(), the periodic one of the
\* background thread or the final one of the thread in stop(), is between
\* its drain and the end of its write; only that execution holds a drained
\* batch, and while the final flush of stop() is under way no background
\* thread is left.
C16_DrainPassesDoNotOverlap ==
    /\ Cardinality(Draining) <= 1
    /\ \A t \in Flushers : localBuffer[t] # <<>> => Draining = {t}
    /\ \A t \in Callers :
          pc[t] \in {"fl_lock", "fl_drain", "fl_open", "fl_write"} => LiveFlushThreads = {}

\* C16 witness: the final flush of stop() holds a drained batch, about to
\* write it, after a periodic flush of the background thread wrote an
\* earlier batch; the background thread has exited.
C16_Witness ==
    /\ calls = 2
    /\ pc["c1"] = "fl_open"
    /\ Ids(localBuffer["c1"]) = {2}
    /\ Ids(Records(file)) = {1}
    /\ file[1] = HeaderLine
    /\ LiveFlushThreads = {}


\* Background thread f takes the first step of a periodic flushToDisk(): it
\* acquires the queue lock for the drain.
PeriodicFlushBegins(f) == pc[f] = "fl_lock" /\ pc'[f] = "fl_drain"

\* C17 as stated: every periodic flushToDisk() of the background thread
\* begins its drain while the running flag is still set.
C17_NoPeriodicFlushAfterClear ==
    [][\A f \in FlushThreads : PeriodicFlushBegins(f) => m_running]_vars

\* C17 as amended: the background loop passes none of its tests of the
\* running flag once the flag is clear: it calls flushToDisk() only on a step
\* at which it read the flag as set, starts a sleep only on such a step, and
\* with the flag clear a loop that is at one of its tests can only exit; the
\* only periodic flush that can run with the flag clear is the one whose
\* test came before the flag was cleared.
C17_NoNewIterationAfterClear ==
    [][\A f \in FlushThreads :
          /\ (pc[f] # "fl_lock" /\ pc'[f] = "fl_lock") => m_running
          /\ (pc[f] # "ft_sleep" /\ pc'[f] = "ft_sleep") => m_running
          /\ (~m_running /\ pc[f] \in {"ft_check", "ft_sleep"}) =>
                pc'[f] \in {pc[f], "done"}
          /\ (~m_running /\ pc[f] = "done") => pc'[f] \in {"done", None}]_vars

\* C17 witness: stop() has cleared the flag and waits in join() while the
\* background thread, which read the flag as set just before, is writing the
\* batch of its last periodic flush.
C17_Witness ==
    /\ ~m_running
    /\ pc["c1"] = "sp_join"
    /\ pc["f1"] = "fl_write"
    /\ localBuffer["f1"] # <<>>
    /\ file = <<HeaderLine>>


\* C18: at most one cursor polling thread exists at any time: the polling
\* thread of an earlier startLogging() has exited when the next one is
\* launched.
C18_SinglePollingThread == Cardinality(LivePollers) <= 1


\* C19: from the return of stopLogging() until the next lifecycle call the
\* event queue is empty: no hook callback and no polling thread enqueues an
\* event after the final flush of the logger.
C19_QueueEmptyAfterStopLogging ==
    lastOp["c1"] = "stopLogging" => m_eventQueue = <<>>

====
